---------------------------- MODULE Spec2Model ----------------------------
(***************************************************************************)
(* A model of the http data source of terraform-provider-http-full:        *)
(* dataSourceRead (one invocation: TLS configuration, request building,    *)
(* the exchange of client.Do, response classification), two invocations    *)
(* that run at the same time, and isContentTypeText.                       *)
(*                                                                         *)
(* Go strings that the code inspects character by character (header names, *)
(* content types, payloads) are sequences of one-character strings, so     *)
(* that lower-casing, canonicalisation, substring search, media type       *)
(* parsing and JSON encoding are computed and not assumed.                 *)
(***************************************************************************)
EXTENDS Integers, Sequences, FiniteSets, TLC

VARIABLES
    inv,        \* two invocations that run at the same time: the state of each
    env,        \* the environment variables of the process
    cfg,        \* the configuration the invocation was given (d.Get / d.GetOk)
    server,     \* the server the URL reaches: its TLS profile
    pc,         \* position of the invocation in dataSourceRead
    tlsConfig,  \* tls.Config built by the invocation
    req,        \* *http.Request built by the invocation
    wire,       \* the requests that were put on the wire, in order
    followed,   \* the number of redirects client.Do has followed
    conn,       \* the connection of the transport of the invocation
    resp,       \* *http.Response received
    diags,      \* diag.Diagnostics returned so far
    d,          \* attributes written with d.Set / d.SetId
    ctIn,       \* argument of a call of isContentTypeText
    ctOut       \* its results: empty until it has returned

vars == <<inv, env, cfg, server, pc, tlsConfig, req, wire, followed, conn, resp, diags, d,
          ctIn, ctOut>>

---------------------------------------------------------------------------
(* Strings *)

EmptyStr == <<>>

UpperLetters ==
    <<"A", "B", "C", "D", "E", "F", "G", "H", "I", "J", "K", "L", "M",
      "N", "O", "P", "Q", "R", "S", "T", "U", "V", "W", "X", "Y", "Z">>

LowerLetters ==
    <<"a", "b", "c", "d", "e", "f", "g", "h", "i", "j", "k", "l", "m",
      "n", "o", "p", "q", "r", "s", "t", "u", "v", "w", "x", "y", "z">>

Digits == <<"0", "1", "2", "3", "4", "5", "6", "7", "8", "9">>

IsUpper(c) == \E i \in 1..26 : UpperLetters[i] = c
IsLower(c) == \E i \in 1..26 : LowerLetters[i] = c
IsDigit(c) == \E i \in 1..10 : Digits[i] = c

LowerChar(c) ==
    IF IsUpper(c) THEN LowerLetters[CHOOSE i \in 1..26 : UpperLetters[i] = c] ELSE c

UpperChar(c) ==
    IF IsLower(c) THEN UpperLetters[CHOOSE i \in 1..26 : LowerLetters[i] = c] ELSE c

\* strings.ToLower
ToLower(s) == [i \in 1..Len(s) |-> LowerChar(s[i])]

\* strings.HasPrefix
HasPrefix(s, p) == Len(s) >= Len(p) /\ SubSeq(s, 1, Len(p)) = p

\* strings.Contains
Contains(s, sub) ==
    \E i \in 0..(Len(s) - Len(sub)) : SubSeq(s, i + 1, i + Len(sub)) = sub

\* s[i:] with a 1-based first position
From(s, i) == SubSeq(s, i, Len(s))

\* unicode.IsSpace, on the characters of the model
IsSpace(c) == c = " "

\* strings.TrimLeftFunc(s, unicode.IsSpace)
TrimLeft(s) ==
    IF \A i \in 1..Len(s) : IsSpace(s[i]) THEN EmptyStr
    ELSE From(s, CHOOSE i \in 1..Len(s) :
                    /\ ~IsSpace(s[i])
                    /\ \A j \in 1..(i - 1) : IsSpace(s[j]))

TrimRight(s) ==
    IF \A i \in 1..Len(s) : IsSpace(s[i]) THEN EmptyStr
    ELSE SubSeq(s, 1, CHOOSE i \in 1..Len(s) :
                    /\ ~IsSpace(s[i])
                    /\ \A j \in (i + 1)..Len(s) : IsSpace(s[j]))

\* strings.TrimSpace
TrimSpace(s) == TrimRight(TrimLeft(s))

\* strings.Join(elems, sep)
RECURSIVE Join(_, _)
Join(elems, sep) ==
    IF Len(elems) = 0 THEN EmptyStr
    ELSE IF Len(elems) = 1 THEN elems[1]
    ELSE elems[1] \o sep \o Join(Tail(elems), sep)

---------------------------------------------------------------------------
(* mime.ParseMediaType (Go standard library), as isContentTypeText uses it *)

TSpecials == {"(", ")", "<", ">", "@", ",", ";", ":", "\\", "\"", "/", "[", "]", "?", "="}

\* mime.isTokenChar: a visible ASCII character that is no tspecial
IsTokenChar(c) == ~IsSpace(c) /\ c \notin TSpecials

\* length of the longest prefix of s made of token characters
TokenLen(s) ==
    IF \A i \in 1..Len(s) : IsTokenChar(s[i]) THEN Len(s)
    ELSE (CHOOSE i \in 1..Len(s) :
              /\ ~IsTokenChar(s[i])
              /\ \A j \in 1..(i - 1) : IsTokenChar(s[j])) - 1

\* mime.consumeToken
consumeToken(s) ==
    [token |-> SubSeq(s, 1, TokenLen(s)), rest |-> From(s, TokenLen(s) + 1)]

\* mime.checkMediaTypeDisposition: TRUE when there is no error
checkMediaTypeDisposition(s) ==
    LET t == consumeToken(s) IN
    IF t.token = EmptyStr THEN FALSE
    ELSE IF t.rest = EmptyStr THEN TRUE
    ELSE IF t.rest[1] # "/" THEN FALSE
    ELSE LET u == consumeToken(Tail(t.rest)) IN
         u.token # EmptyStr /\ u.rest = EmptyStr

\* mime.consumeValue: a token, or a quoted string (without escapes)
consumeValue(v) ==
    IF v = EmptyStr THEN [value |-> EmptyStr, rest |-> v]
    ELSE IF v[1] # "\"" THEN
        LET t == consumeToken(v) IN [value |-> t.token, rest |-> t.rest]
    ELSE IF \E i \in 2..Len(v) : v[i] = "\"" THEN
        LET close == CHOOSE i \in 2..Len(v) :
                        /\ v[i] = "\""
                        /\ \A j \in 2..(i - 1) : v[j] # "\""
        IN [value |-> SubSeq(v, 2, close - 1), rest |-> From(v, close + 1)]
    ELSE [value |-> EmptyStr, rest |-> v]

\* mime.consumeMediaParam: param = "" when no parameter could be read
consumeMediaParam(v) ==
    LET fail == [param |-> EmptyStr, value |-> EmptyStr, rest |-> v]
        r1 == TrimLeft(v)
    IN
    IF ~HasPrefix(r1, <<";">>) THEN fail
    ELSE
        LET t == consumeToken(TrimLeft(Tail(r1)))
            r2 == TrimLeft(t.rest)
        IN
        IF t.token = EmptyStr THEN fail
        ELSE IF ~HasPrefix(r2, <<"=">>) THEN fail
        ELSE
            LET r3 == TrimLeft(Tail(r2))
                cv == consumeValue(r3)
            IN
            IF cv.value = EmptyStr /\ cv.rest = r3 THEN fail
            ELSE [param |-> ToLower(t.token), value |-> cv.value, rest |-> cv.rest]

\* the parameter loop of mime.ParseMediaType; params is a function from
\* parameter names to values
RECURSIVE parseParams(_, _)
parseParams(v, params) ==
    LET w == TrimLeft(v) IN
    IF w = EmptyStr THEN [ok |-> TRUE, params |-> params]
    ELSE
        LET p == consumeMediaParam(w) IN
        IF p.param = EmptyStr THEN
            IF TrimSpace(p.rest) = <<";">> THEN [ok |-> TRUE, params |-> params]
            ELSE [ok |-> FALSE, params |-> <<>>]
        ELSE IF p.param \in DOMAIN params THEN [ok |-> FALSE, params |-> <<>>]
        ELSE parseParams(p.rest,
                         [k \in (DOMAIN params) \cup {p.param} |->
                              IF k = p.param THEN p.value ELSE params[k]])

\* the position of the first ";" of v, or Len(v) + 1
SemiIndex(v) ==
    IF \E i \in 1..Len(v) : v[i] = ";" THEN
        CHOOSE i \in 1..Len(v) : v[i] = ";" /\ \A j \in 1..(i - 1) : v[j] # ";"
    ELSE Len(v) + 1

\* mime.ParseMediaType: ok = FALSE stands for err != nil
ParseMediaType(v) ==
    LET i == SemiIndex(v)
        mediatype == TrimSpace(ToLower(SubSeq(v, 1, i - 1)))
    IN
    IF ~checkMediaTypeDisposition(mediatype) THEN
        [ok |-> FALSE, mediatype |-> EmptyStr, params |-> <<>>]
    ELSE
        LET p == parseParams(From(v, i), <<>>) IN
        [ok |-> p.ok, mediatype |-> mediatype, params |-> p.params]

\* params["charset"] of a Go map: the zero value "" when the key is absent
MapGet(m, k) == IF k \in DOMAIN m THEN m[k] ELSE EmptyStr

---------------------------------------------------------------------------
(* String constants of the code, and the content types and parameters tried *)

s_content_type ==
    <<"c", "o", "n", "t", "e", "n", "t", "-", "t", "y", "p", "e">>

s_form_urlencoded ==
    <<"a", "p", "p", "l", "i", "c", "a", "t", "i", "o", "n", "/", "x", "-", "w", "w", "w", "-", "f", "o", "r", "m", "-", "u", "r", "l", "e", "n", "c", "o", "d", "e", "d">>

s_application_json ==
    <<"a", "p", "p", "l", "i", "c", "a", "t", "i", "o", "n", "/", "j", "s", "o", "n">>

s_text_slash ==
    <<"t", "e", "x", "t", "/">>

s_saml_xml ==
    <<"a", "p", "p", "l", "i", "c", "a", "t", "i", "o", "n", "/", "s", "a", "m", "l", "m", "e", "t", "a", "d", "a", "t", "a", "+", "x", "m", "l">>

s_charset ==
    <<"c", "h", "a", "r", "s", "e", "t">>

s_utf8 ==
    <<"u", "t", "f", "-", "8">>

s_us_ascii ==
    <<"u", "s", "-", "a", "s", "c", "i", "i">>

s_body ==
    <<"b", "o", "d", "y">>

s_Content_Type ==
    <<"C", "o", "n", "t", "e", "n", "t", "-", "T", "y", "p", "e">>

s_comma_space ==
    <<",", " ">>

ct_text_plain ==
    <<"t", "e", "x", "t", "/", "p", "l", "a", "i", "n">>

ct_saml2 ==
    <<"a", "p", "p", "l", "i", "c", "a", "t", "i", "o", "n", "/", "s", "a", "m", "l", "m", "e", "t", "a", "d", "a", "t", "a", "+", "x", "m", "l", "2">>

p_UTF8 ==
    <<";", " ", "c", "h", "a", "r", "s", "e", "t", "=", "U", "T", "F", "-", "8">>


s_Authorization ==
    <<"A", "u", "t", "h", "o", "r", "i", "z", "a", "t", "i", "o", "n">>

s_auth_value ==
    <<"Z", "m", "9", "v", "O", "m", "J", "h", "c", "g", "=", "=">>

s_x_token ==
    <<"x", "-", "t", "o", "k", "e", "n">>

s_X_Token ==
    <<"X", "-", "T", "o", "k", "e", "n">>

s_tok_a ==
    <<"a">>

s_tok_b ==
    <<"b">>

s_json_and_form ==
    <<"A", "p", "p", "l", "i", "c", "a", "t", "i", "o", "n", "/", "J", "S", "O", "N", ",", " ", "a", "p", "p", "l", "i", "c", "a", "t", "i", "o", "n", "/", "x", "-", "w", "w", "w", "-", "f", "o", "r", "m", "-", "u", "r", "l", "e", "n", "c", "o", "d", "e", "d">>

s_FORM_upper ==
    <<"A", "p", "p", "l", "i", "c", "a", "t", "i", "o", "n", "/", "X", "-", "W", "W", "W", "-", "F", "o", "r", "m", "-", "U", "r", "l", "e", "n", "c", "o", "d", "e", "d">>

s_foo ==
    <<"f", "o", "o">>

s_bar ==
    <<"b", "a", "r">>

s_form_payload ==
    <<"f", "o", "o", "=", "b", "a", "r", "&", "b", "a", "r", "=", "b", "a", "r">>

s_quote_value ==
    <<"a", "\"", "b">>

s_X_Single ==
    <<"X", "-", "S", "i", "n", "g", "l", "e">>

s_foobar ==
    <<"f", "o", "o", "b", "a", "r">>

s_X_Double ==
    <<"X", "-", "D", "o", "u", "b", "l", "e">>

s_x_double ==
    <<"x", "-", "d", "o", "u", "b", "l", "e">>

s_Referer ==
    <<"R", "e", "f", "e", "r", "e", "r">>

s_User_Agent ==
    <<"U", "s", "e", "r", "-", "A", "g", "e", "n", "t">>

s_go_http_client ==
    <<"G", "o", "-", "h", "t", "t", "p", "-", "c", "l", "i", "e", "n", "t", "/", "1", ".", "1">>

s_Accept_Encoding ==
    <<"A", "c", "c", "e", "p", "t", "-", "E", "n", "c", "o", "d", "i", "n", "g">>

s_gzip ==
    <<"g", "z", "i", "p">>

s_version ==
    <<"1", ".", "0", ".", "0">>

s_ruh_roh ==
    <<"r", "u", "h", "-", "r", "o", "h">>

ct_json_utf16 ==
    <<"a", "p", "p", "l", "i", "c", "a", "t", "i", "o", "n", "/", "j", "s", "o", "n", ";", " ", "c", "h", "a", "r", "s", "e", "t", "=", "U", "T", "F", "-", "1", "6">>

ct_text_utf8 ==
    <<"t", "e", "x", "t", "/", "p", "l", "a", "i", "n", ";", " ", "c", "h", "a", "r", "s", "e", "t", "=", "U", "T", "F", "-", "8">>

---------------------------------------------------------------------------
(* isContentTypeText *)

\* allowedContentTypes with the "$" of the second expression missing
allowedContentTypes_JsonOpen ==
    << [lit |-> s_text_slash,       tail |-> "some"],
       [lit |-> s_application_json, tail |-> "open"],
       [lit |-> s_saml_xml,         tail |-> "open"] >>

\* The three regular expressions of allowedContentTypes. Each is anchored at
\* the start (^) and is a literal followed by: ".+" (some), "$" (end) or
\* nothing (open).
allowedContentTypes ==
    << [lit |-> s_text_slash,       tail |-> "some"],
       [lit |-> s_application_json, tail |-> "end"],
       [lit |-> s_saml_xml,         tail |-> "open"] >>

\* regexp.MatchString for the expressions above
MatchString(r, s) ==
    /\ HasPrefix(s, r.lit)
    /\ CASE r.tail = "some" -> Len(s) > Len(r.lit)
         [] r.tail = "end"  -> Len(s) = Len(r.lit)
         [] r.tail = "open" -> TRUE

CharsetIsText(charset) ==
    charset = EmptyStr \/ charset = s_utf8 \/ charset = s_us_ascii

isContentTypeText(contentType) ==
    LET parsed == ParseMediaType(contentType) IN
    IF ~parsed.ok THEN FALSE
    ELSE IF \E i \in 1..Len(allowedContentTypes) :
                MatchString(allowedContentTypes[i], parsed.mediatype)
         THEN CharsetIsText(ToLower(MapGet(parsed.params, s_charset)))
         ELSE FALSE

---------------------------------------------------------------------------
(* net/http and encoding/json, as dataSourceRead uses them *)

\* the printable ASCII characters (but the backquote) in code order: the byte
\* order of Go strings
Ascii ==
    <<" ", "!", "\"", "#", "$", "%", "&", "'", "(", ")", "*", "+", ",", "-", ".", "/",
      "0", "1", "2", "3", "4", "5", "6", "7", "8", "9", ":", ";", "<", "=", ">", "?",
      "@", "A", "B", "C", "D", "E", "F", "G", "H", "I", "J", "K", "L", "M", "N", "O",
      "P", "Q", "R", "S", "T", "U", "V", "W", "X", "Y", "Z", "[", "\\", "]", "^", "_",
      "a", "b", "c", "d", "e", "f", "g", "h", "i", "j", "k", "l", "m", "n", "o",
      "p", "q", "r", "s", "t", "u", "v", "w", "x", "y", "z", "{", "|", "}", "~">>

Code(c) == CHOOSE i \in 1..Len(Ascii) : Ascii[i] = c

\* s < t in the byte order of Go strings
RECURSIVE StrLess(_, _)
StrLess(s, t) ==
    IF t = EmptyStr THEN FALSE
    ELSE IF s = EmptyStr THEN TRUE
    ELSE IF s[1] # t[1] THEN Code(s[1]) < Code(t[1])
    ELSE StrLess(Tail(s), Tail(t))

\* the keys of a map in increasing order, as encoding/json writes them
RECURSIVE SortedKeys(_)
SortedKeys(keys) ==
    IF keys = {} THEN <<>>
    ELSE LET least == CHOOSE k \in keys : \A o \in keys \ {k} : StrLess(k, o)
         IN <<least>> \o SortedKeys(keys \ {least})

\* encoding/json's string encoding: quotes and backslashes escaped, and
\* <, > and & written as their \u escapes
jsonEscapeChar(c) ==
    CASE c = "\"" -> <<"\\", "\"">>
      [] c = "\\" -> <<"\\", "\\">>
      [] c = "<"  -> <<"\\", "u", "0", "0", "3", "c">>
      [] c = ">"  -> <<"\\", "u", "0", "0", "3", "e">>
      [] c = "&"  -> <<"\\", "u", "0", "0", "2", "6">>
      [] OTHER    -> <<c>>

RECURSIVE jsonString(_)
jsonString(s) ==
    IF s = EmptyStr THEN EmptyStr ELSE jsonEscapeChar(s[1]) \o jsonString(Tail(s))

jsonQuote(s) == <<"\"">> \o jsonString(s) \o <<"\"">>

\* json.Marshal of a map[string]interface{} whose values are strings
jsonMarshal(m) ==
    LET keys == SortedKeys(DOMAIN m)
        members == [i \in 1..Len(keys) |->
                        jsonQuote(keys[i]) \o <<":">> \o jsonQuote(m[keys[i]])]
    IN <<"{">> \o Join(members, <<",">>) \o <<"}">>

\* the decoding of one JSON string that starts at s[1] = "\"": its value and
\* the text after its closing quote
RECURSIVE jsonReadString(_, _)
jsonReadString(s, acc) ==
    IF s[1] = "\"" THEN [value |-> acc, rest |-> Tail(s)]
    ELSE IF s[1] = "\\" THEN
        IF s[2] = "u" THEN
            LET hex == SubSeq(s, 3, 6)
                c == CASE hex = <<"0", "0", "3", "c">> -> "<"
                       [] hex = <<"0", "0", "3", "e">> -> ">"
                       [] hex = <<"0", "0", "2", "6">> -> "&"
            IN jsonReadString(From(s, 7), Append(acc, c))
        ELSE jsonReadString(From(s, 3), Append(acc, s[2]))
    ELSE jsonReadString(Tail(s), Append(acc, s[1]))

\* the members of a JSON object of strings, s being the text after "{" or ","
RECURSIVE jsonReadMembers(_, _)
jsonReadMembers(s, m) ==
    IF s[1] = "}" THEN m
    ELSE
        LET k == jsonReadString(Tail(s), EmptyStr)
            v == jsonReadString(Tail(Tail(k.rest)), EmptyStr)
            m2 == [x \in (DOMAIN m) \cup {k.value} |->
                      IF x = k.value THEN v.value ELSE m[x]]
        IN IF v.rest[1] = "," THEN jsonReadMembers(Tail(v.rest), m2)
           ELSE jsonReadMembers(v.rest, m2)

\* json.Unmarshal of the output of jsonMarshal into a map[string]string
jsonUnmarshal(s) == jsonReadMembers(Tail(s), <<>>)

\* textproto.CanonicalMIMEHeaderKey: the first letter and every letter after
\* a hyphen in upper case, the others in lower case; a name holding a
\* character that is no token character is returned unchanged
CanonicalMIMEHeaderKey(s) ==
    IF \E i \in 1..Len(s) : ~IsTokenChar(s[i]) THEN s
    ELSE [i \in 1..Len(s) |->
             IF i = 1 \/ s[i - 1] = "-" THEN UpperChar(s[i]) ELSE LowerChar(s[i])]

\* HeaderSet adding the value to the values the name already has
HeaderSet_Append(h, name, value) ==
    LET k == CanonicalMIMEHeaderKey(name) IN
    [x \in (DOMAIN h) \cup {k} |->
        IF x = k THEN (IF k \in DOMAIN h THEN Append(h[k], value) ELSE <<value>>)
        ELSE h[x]]

\* http.Header.Set: one value under the canonical name, replacing any other
HeaderSet(h, name, value) ==
    LET k == CanonicalMIMEHeaderKey(name) IN
    [x \in (DOMAIN h) \cup {k} |-> IF x = k THEN <<value>> ELSE h[x]]

\* http.Header.Add, which the reader of a response applies to every header
\* line in the order received
HeaderAdd(h, name, value) ==
    LET k == CanonicalMIMEHeaderKey(name) IN
    [x \in (DOMAIN h) \cup {k} |->
        IF x = k THEN (IF k \in DOMAIN h THEN Append(h[k], value) ELSE <<value>>)
        ELSE h[x]]

\* http.Header.Get: the first value under the canonical name, or ""
HeaderGet(h, name) ==
    LET k == CanonicalMIMEHeaderKey(name) IN
    IF k \in DOMAIN h /\ Len(h[k]) > 0 THEN h[k][1] ELSE EmptyStr

\* the loop "for name, value := range headers { req.Header.Set(name, value) }"
\* run in the given order of the names
RECURSIVE SetAll(_, _, _)
SetAll(h, headers, order) ==
    IF order = <<>> THEN h
    ELSE SetAll(HeaderSet(h, order[1], headers[order[1]]), headers, Tail(order))

\* the header of a response whose header lines arrived in the given order
RECURSIVE ReadHeader(_, _)
ReadHeader(h, lines) ==
    IF lines = <<>> THEN h
    ELSE ReadHeader(HeaderAdd(h, lines[1].name, lines[1].value), Tail(lines))

\* the orders in which a range over a Go map may visit the given keys
Orders(keys) ==
    {o \in [1..Cardinality(keys) -> keys] : \A i, j \in DOMAIN o : i # j => o[i] # o[j]}

---------------------------------------------------------------------------
(* The configuration of an invocation *)

\* the value d.Get returns for an attribute that is not set
Unset == ""

\* url: the plain and the TLS mock server of the tests, the TLS mock server
\* under a host name its certificate does not carry, the public server of
\* the documentation, and a text url.Parse rejects
Urls ==
    {"http://localhost/meta_200.txt", "https://localhost/get",
     "https://example.test/get", "https://httpbin.org/post", ":no-scheme"}

\* net/url.Parse, on the URLs above
UrlParse(u) ==
    CASE u = "http://localhost/meta_200.txt" ->
            [ok |-> TRUE, scheme |-> "http", host |-> "localhost"]
      [] u = "https://localhost/get" ->
            [ok |-> TRUE, scheme |-> "https", host |-> "localhost"]
      [] u = "https://example.test/get" ->
            [ok |-> TRUE, scheme |-> "https", host |-> "example.test"]
      [] u = "https://httpbin.org/post" ->
            [ok |-> TRUE, scheme |-> "https", host |-> "httpbin.org"]
      [] OTHER -> [ok |-> FALSE, scheme |-> "", host |-> ""]

\* the values of the HTTP verbs the documentation names, and two others
ValidMethods == {"GET", "POST", "PUT", "PATCH", "DELETE", "HEAD"}

Methods == {Unset} \cup ValidMethods \cup {"FETCH", "get"}

\* request_headers
HeaderMaps ==
    { <<>>,
      s_content_type :> s_application_json,
      s_content_type :> s_form_urlencoded,
      s_content_type :> s_FORM_upper,
      s_content_type :> ct_text_plain,
      s_content_type :> s_json_and_form,
      s_Content_Type :> s_form_urlencoded,
      s_Authorization :> s_auth_value,
      (s_x_token :> s_tok_a) @@ (s_X_Token :> s_tok_b) }

\* request_body: a map of strings; the empty map is what d.GetOk reports as
\* not set
BodyMaps ==
    { <<>>,
      (s_foo :> s_bar) @@ (s_bar :> s_bar),
      s_body :> s_form_payload,
      (s_body :> s_form_payload) @@ (s_foo :> s_quote_value) }

\* PEM material. AppendCertsFromPEM and X509KeyPair are modelled on these
\* values: the certificates a PEM text holds, and the key it holds.
CaValues == {Unset, "PEM(caA)", "PEM(caB)", "not PEM"}

CrtValues == {Unset, "PEM(client.crt)", "not PEM"}

KeyValues == {Unset, "PEM(client.key)", "PEM(other.key)", "not PEM"}

\* x509.CertPool.AppendCertsFromPEM: the certificates added to the pool;
\* text that holds no certificate adds none
AppendCertsFromPEM(pem) ==
    CASE pem = "PEM(caA)" -> {"caA"}
      [] pem = "PEM(caB)" -> {"caB"}
      [] OTHER -> {}

\* tls.X509KeyPair: an error unless the first text holds a certificate and
\* the second the private key of that certificate
X509KeyPair(crt, key) ==
    IF crt # "PEM(client.crt)" THEN
        [ok |-> FALSE, err |-> "tls: failed to find any PEM data in certificate input"]
    ELSE IF key \notin {"PEM(client.key)", "PEM(other.key)"} THEN
        [ok |-> FALSE, err |-> "tls: failed to find any PEM data in key input"]
    ELSE IF key # "PEM(client.key)" THEN
        [ok |-> FALSE, err |-> "tls: private key does not match public key"]
    ELSE [ok |-> TRUE, cert |-> [subject |-> "client", issuer |-> "caA"]]

\* request_timeout_ms of TestDataSource_http_timeout and the delay of the
\* /timeout path of the mock server
TimeoutMs == 100

ServerDelayMs == 200

\* sni: not set, a name the certificate of the TLS mock server does not
\* carry, and the name it carries
SniValues == {Unset, "foo", "localhost"}

\* request_body_text is the text of a request_body written as a string and
\* not as a map; it is empty when request_body is a map or is not written
DefaultConfig ==
    [url |-> "http://localhost/meta_200.txt", method |-> Unset,
     request_headers |-> <<>>, request_body |-> <<>>, request_body_text |-> EmptyStr,
     ca |-> Unset, client_crt |-> Unset, client_key |-> Unset,
     sni |-> Unset, insecure_skip_verify |-> FALSE, request_timeout_ms |-> 0]

\* configurations that vary what the request is built from
RequestConfigs ==
    {[DefaultConfig EXCEPT !.url = u, !.request_headers = h, !.request_body = b] :
        u \in {"http://localhost/meta_200.txt", "https://httpbin.org/post", ":no-scheme"},
        h \in HeaderMaps, b \in BodyMaps}

\* configurations that name a method
MethodConfigs ==
    {[DefaultConfig EXCEPT !.method = m, !.request_headers = h, !.request_body = b] :
        m \in Methods,
        h \in {<<>>, s_content_type :> s_application_json},
        b \in {<<>>, (s_foo :> s_bar) @@ (s_bar :> s_bar)}}

\* configurations that vary the TLS material and the timeout
TransportConfigs ==
    {[DefaultConfig EXCEPT !.url = u, !.ca = ca, !.client_crt = crt, !.client_key = key,
                           !.request_timeout_ms = t] :
        u \in {"http://localhost/meta_200.txt", "https://localhost/get"},
        ca \in CaValues, crt \in CrtValues, key \in KeyValues, t \in {0, TimeoutMs}}

\* configurations that set the attributes of the TLS verification
TLSOptionConfigs ==
    {[DefaultConfig EXCEPT !.url = u, !.ca = ca, !.sni = sni,
                           !.insecure_skip_verify = skip] :
        u \in {"https://localhost/get", "https://example.test/get"},
        ca \in {Unset, "PEM(caA)", "PEM(caB)"}, sni \in SniValues, skip \in BOOLEAN}

\* configurations that write request_body as a string
StringBodyConfigs ==
    {[DefaultConfig EXCEPT !.url = u, !.request_headers = h,
                           !.request_body_text = s_form_payload] :
        u \in {"http://localhost/meta_200.txt", "https://httpbin.org/post"},
        h \in {<<>>, s_content_type :> s_form_urlencoded,
               s_content_type :> s_application_json}}

Configs ==
    RequestConfigs \cup MethodConfigs \cup TransportConfigs
        \cup TLSOptionConfigs \cup StringBodyConfigs

---------------------------------------------------------------------------
(* The server and its responses *)

\* the environment of the process: HTTPS_PROXY, "" when it is not set
Envs == {[HTTPS_PROXY |-> ""], [HTTPS_PROXY |-> "http://proxy.test:3128"]}

\* the environments tried with a URL: HTTPS_PROXY is set for https URLs only
EnvsFor(u) ==
    IF UrlParse(u).ok /\ UrlParse(u).scheme = "https" THEN Envs
    ELSE {[HTTPS_PROXY |-> ""]}

\* the certificates the operating system trusts
SystemRoots == {"publicCA"}

\* The plain HTTP mock server; the HTTPS servers on localhost, whose
\* certificate names localhost and is signed by caA: one that asks for no
\* client certificate and one that requires a client certificate signed by
\* caA; the first of these reached under another host name; and a public
\* HTTPS server, whose certificate is signed by an authority the system
\* trusts.
Servers ==
    { [host |-> "localhost", tls |-> FALSE, issuer |-> "", names |-> {},
       clientAuth |-> FALSE, clientCAs |-> {}],
      [host |-> "localhost", tls |-> TRUE, issuer |-> "caA", names |-> {"localhost"},
       clientAuth |-> FALSE, clientCAs |-> {}],
      [host |-> "localhost", tls |-> TRUE, issuer |-> "caA", names |-> {"localhost"},
       clientAuth |-> TRUE, clientCAs |-> {"caA"}],
      [host |-> "example.test", tls |-> TRUE, issuer |-> "caA", names |-> {"localhost"},
       clientAuth |-> FALSE, clientCAs |-> {}],
      [host |-> "httpbin.org", tls |-> TRUE, issuer |-> "publicCA",
       names |-> {"httpbin.org"}, clientAuth |-> FALSE, clientCAs |-> {}] }

\* the servers a URL can reach: its host names the server and its scheme
\* decides whether TLS is spoken
ServersFor(u) ==
    IF UrlParse(u).ok
    THEN {s \in Servers : s.host = UrlParse(u).host
                            /\ s.tls = (UrlParse(u).scheme = "https")}
    ELSE {s \in Servers : ~s.tls}

\* the largest number of lines of one response that carry the same header name
MaxRepeat == 2

\* the spellings under which a repeated header name arrives
RepeatNames == <<s_X_Double, s_x_double>>

\* n header lines of the same name, with the values 1, 2, ... in this order
RepeatedLines(n) ==
    [i \in 1..n |-> [name |-> RepeatNames[((i - 1) % 2) + 1], value |-> <<Digits[i + 1]>>]]

\* the Content-Type lines of a response: none, or one
ContentTypeLines ==
    { <<>>,
      <<[name |-> s_Content_Type, value |-> ct_text_plain]>>,
      <<[name |-> s_content_type, value |-> ct_json_utf16]>>,
      <<[name |-> s_Content_Type, value |-> ct_text_utf8]>> }

\* the header lines the mock server of the tests sends on every path
MockLines ==
    << [name |-> s_Content_Type, value |-> ct_text_plain],
       [name |-> s_X_Single, value |-> s_foobar],
       [name |-> s_X_Double, value |-> <<"1">>],
       [name |-> s_X_Double, value |-> <<"2">>] >>

StatusCodes == {200, 201, 204, 299, 300, 404, 405, 500}

\* the status code of the redirects of a server: Temporary Redirect, with a
\* Location that names the URL of the request
RedirectCodes == {307}

\* the largest number of redirects a server answers in a row
MaxRedirects == 1

ResponseBodies == {EmptyStr, s_version, s_ruh_roh}

\* What a server may answer: status, header lines in the order sent, payload,
\* whether the payload can be read to its end, and the time the answer took.
Responses ==
    {[StatusCode |-> c, lines |-> MockLines, body |-> b, readable |-> r, elapsedMs |-> 0] :
        c \in StatusCodes, b \in ResponseBodies, r \in BOOLEAN}
    \cup
    {[StatusCode |-> c, lines |-> ct \o RepeatedLines(n), body |-> s_version,
      readable |-> TRUE, elapsedMs |-> t] :
        c \in {200, 404}, ct \in ContentTypeLines, n \in 0..MaxRepeat,
        t \in {0, ServerDelayMs}}

---------------------------------------------------------------------------
(* dataSourceRead *)

\* A diagnostic. Its summary is the text of the message as a sequence of
\* pieces: the literal parts of the format string and the values printed.
ErrorDiag(summary) == [severity |-> "Error", summary |-> summary]

WarningDiag(summary) == [severity |-> "Warning", summary |-> summary]

NoRequest == [built |-> FALSE]

NoResponse == [received |-> FALSE]

\* d.GetOk of a string attribute: ok is false for the zero value ""
GetOk(value) == value # Unset

\* d.GetOk of a map attribute: ok is false for the empty map
GetOkMap(value) == DOMAIN value # {}

\* buildTLSConfig with the check of client_key left out: a certificate
\* without a key is skipped
buildTLSConfig_LoneCrtIgnored(c) ==
    LET rootCAs == IF c.ca # ""
                   THEN [set |-> TRUE, certs |-> AppendCertsFromPEM(c.ca)]
                   ELSE [set |-> FALSE, certs |-> {}]
        base == [RootCAs |-> rootCAs, Certificates |-> <<>>,
                 ServerName |-> "", InsecureSkipVerify |-> FALSE]
        pair == X509KeyPair(c.client_crt, c.client_key)
    IN
    IF c.client_crt = "" \/ c.client_key = "" THEN [ok |-> TRUE, config |-> base]
    ELSE IF ~pair.ok THEN
        [ok |-> FALSE,
         diag |-> [severity |-> "Error",
                   summary |-> <<"Error loading client certificates: ", pair.err>>]]
    ELSE [ok |-> TRUE, config |-> [base EXCEPT !.Certificates = <<pair.cert>>]]

\* buildTLSConfig loading the key pair without placing it in the tls.Config
buildTLSConfig_NoCertificates(c) ==
    LET rootCAs == IF c.ca # ""
                   THEN [set |-> TRUE, certs |-> AppendCertsFromPEM(c.ca)]
                   ELSE [set |-> FALSE, certs |-> {}]
        base == [RootCAs |-> rootCAs, Certificates |-> <<>>,
                 ServerName |-> "", InsecureSkipVerify |-> FALSE]
        pair == X509KeyPair(c.client_crt, c.client_key)
    IN
    IF c.client_crt = "" THEN [ok |-> TRUE, config |-> base]
    ELSE IF c.client_key = "" THEN
        [ok |-> FALSE,
         diag |-> [severity |-> "Error",
                   summary |-> <<"Both ", "client_crt and client_key",
                                 " must be specified">>]]
    ELSE IF ~pair.ok THEN
        [ok |-> FALSE,
         diag |-> [severity |-> "Error",
                   summary |-> <<"Error loading client certificates: ", pair.err>>]]
    ELSE [ok |-> TRUE, config |-> base]

\* lines 98-121: the tls.Config of the invocation, or the error returned.
\* ServerName and InsecureSkipVerify keep their zero values.
buildTLSConfig(c) ==
    LET rootCAs == IF GetOk(c.ca)
                   THEN [set |-> TRUE, certs |-> AppendCertsFromPEM(c.ca)]
                   ELSE [set |-> FALSE, certs |-> {}]
        base == [RootCAs |-> rootCAs, Certificates |-> <<>>,
                 ServerName |-> "", InsecureSkipVerify |-> FALSE]
    IN
    IF ~GetOk(c.client_crt) THEN [ok |-> TRUE, config |-> base]
    ELSE IF ~GetOk(c.client_key) THEN
        [ok |-> FALSE,
         diag |-> ErrorDiag(<<"Both ", "client_crt and client_key", " must be specified">>)]
    ELSE
        LET pair == X509KeyPair(c.client_crt, c.client_key) IN
        IF ~pair.ok THEN
            [ok |-> FALSE,
             diag |-> ErrorDiag(<<"Error loading client certificates: ", pair.err>>)]
        ELSE [ok |-> TRUE, config |-> [base EXCEPT !.Certificates = <<pair.cert>>]]

\* lines 128-132: the verb of the request
resolveVerb(c) == IF GetOkMap(c.request_body) THEN "POST" ELSE "GET"

\* encodeBody sending the value of the key body where the code sends the
\* JSON text of the map
encodeBody_JsonBodyKeyOnly(c) ==
    LET b == c.request_body
        headers == c.request_headers
        nil == [reader |-> FALSE, data |-> EmptyStr]
        raw == [reader |-> TRUE, data |-> MapGet(jsonUnmarshal(jsonMarshal(b)), s_body)]
    IN
    IF DOMAIN b = {} THEN nil
    ELSE IF s_content_type \in DOMAIN headers THEN
        LET contentType == ToLower(headers[s_content_type]) IN
        IF Contains(contentType, ToLower(s_form_urlencoded)) THEN raw
        ELSE IF Contains(contentType, ToLower(s_application_json)) THEN raw
        ELSE nil
    ELSE raw

\* encodeBody sending the JSON text of the map where the code sends the
\* value of the key body
encodeBody_FormAsJson(c) ==
    LET b == c.request_body
        headers == c.request_headers
        nil == [reader |-> FALSE, data |-> EmptyStr]
        json == [reader |-> TRUE, data |-> jsonMarshal(b)]
    IN
    IF DOMAIN b = {} THEN nil
    ELSE IF s_content_type \in DOMAIN headers THEN
        LET contentType == ToLower(headers[s_content_type]) IN
        IF Contains(contentType, ToLower(s_form_urlencoded)) THEN json
        ELSE IF Contains(contentType, ToLower(s_application_json)) THEN json
        ELSE nil
    ELSE json

\* encodeBody sending the JSON text of the map for a content type that is
\* neither the form type nor JSON
encodeBody_PlainAsJson(c) ==
    LET b == c.request_body
        headers == c.request_headers
        json == [reader |-> TRUE, data |-> jsonMarshal(b)]
    IN
    IF DOMAIN b = {} THEN [reader |-> FALSE, data |-> EmptyStr]
    ELSE IF s_content_type \in DOMAIN headers THEN
        LET contentType == ToLower(headers[s_content_type]) IN
        IF Contains(contentType, ToLower(s_form_urlencoded)) THEN
            [reader |-> TRUE, data |-> MapGet(jsonUnmarshal(json.data), s_body)]
        ELSE json
    ELSE json

\* encodeBody finding the content type under any letter case of its name
encodeBody_AnyCaseName(c) ==
    LET b == c.request_body
        headers == c.request_headers
        nil == [reader |-> FALSE, data |-> EmptyStr]
        json == [reader |-> TRUE, data |-> jsonMarshal(b)]
        named == {k \in DOMAIN headers : ToLower(k) = s_content_type}
    IN
    IF DOMAIN b = {} THEN nil
    ELSE IF named # {} THEN
        LET contentType == ToLower(headers[CHOOSE k \in named : TRUE]) IN
        IF Contains(contentType, ToLower(s_form_urlencoded)) THEN
            [reader |-> TRUE, data |-> MapGet(jsonUnmarshal(json.data), s_body)]
        ELSE IF Contains(contentType, ToLower(s_application_json)) THEN json
        ELSE nil
    ELSE json

\* lines 129-159: the body handed to http.NewRequestWithContext; reader is
\* FALSE for the nil io.Reader. json.Marshal and json.Unmarshal do not fail
\* on a map of strings, so the three error returns of these lines are not
\* reachable.
encodeBody(c) ==
    LET b == c.request_body
        headers == c.request_headers
        nil == [reader |-> FALSE, data |-> EmptyStr]
    IN
    IF ~GetOkMap(b) THEN nil
    ELSE IF s_content_type \in DOMAIN headers THEN
        LET contentType == ToLower(headers[s_content_type]) IN
        IF Contains(contentType, ToLower(s_form_urlencoded)) THEN
            [reader |-> TRUE, data |-> MapGet(jsonUnmarshal(jsonMarshal(b)), s_body)]
        ELSE IF Contains(contentType, ToLower(s_application_json)) THEN
            [reader |-> TRUE, data |-> jsonMarshal(b)]
        ELSE nil
    ELSE [reader |-> TRUE, data |-> jsonMarshal(b)]

\* lines 161-168: http.NewRequestWithContext, then the headers set in the
\* order the range over the map visits them
newRequest(c, order) ==
    [built |-> TRUE, Method |-> resolveVerb(c), URL |-> c.url,
     Body |-> encodeBody(c),
     Header |-> SetAll(<<>>, c.request_headers, order)]

\* lines 95-168 when an error is returned: the diagnostic
buildError(c) ==
    IF ~buildTLSConfig(c).ok THEN buildTLSConfig(c).diag
    ELSE ErrorDiag(<<"Error creating request: ", "parse: missing protocol scheme">>)

buildFails(c) == ~buildTLSConfig(c).ok \/ ~UrlParse(c.url).ok

\* lines 42-48: request_body is declared a map of strings; a configuration
\* that writes it as a string does not conform to the schema
schemaAccepts(c) == c.request_body_text = EmptyStr

\* lines 42-48: a configuration that does not conform to the schema is
\* rejected with a diagnostic, and dataSourceRead is not called
SchemaRejects ==
    /\ pc = "idle"
    /\ ~schemaAccepts(cfg)
    /\ diags' = Append(diags, ErrorDiag(<<"Inappropriate value for attribute ",
                                          "request_body", ": map of string required">>))
    /\ pc' = "done"
    /\ UNCHANGED <<inv, env, cfg, server, tlsConfig, req, wire, followed, conn, resp, d,
                   ctIn, ctOut>>

\* lines 95-168: the TLS configuration, the transport and the request
Build ==
    /\ pc = "idle"
    /\ schemaAccepts(cfg)
    /\ \/ /\ buildFails(cfg)
          /\ diags' = Append(diags, buildError(cfg))
          /\ pc' = "done"
          /\ UNCHANGED <<tlsConfig, req>>
       \/ /\ ~buildFails(cfg)
          /\ \E order \in Orders(DOMAIN cfg.request_headers) :
                req' = newRequest(cfg, order)
          /\ tlsConfig' = buildTLSConfig(cfg).config
          /\ pc' = "built"
          /\ UNCHANGED diags
    /\ UNCHANGED <<inv, env, cfg, server, wire, followed, conn, resp, d, ctIn, ctOut>>

\* the name crypto/tls verifies the server certificate against: ServerName
\* of the tls.Config, or the host of the URL when it is empty
VerifiedName(tc, c) ==
    IF tc.ServerName # "" THEN tc.ServerName ELSE UrlParse(c.url).host

\* the certificates the server certificate is verified against: RootCAs, or
\* the system's when RootCAs is nil
TrustedRoots(tc) == IF tc.RootCAs.set THEN tc.RootCAs.certs ELSE SystemRoots

\* the names of a certificate as x509.HostnameError prints them
NamesText(names) == CHOOSE n \in names : TRUE

\* the error of the TLS handshake with the server, as the pieces of its
\* text; empty when there is none
HandshakeError(tc, c, srv) ==
    IF ~srv.tls THEN <<>>
    ELSE IF ~tc.InsecureSkipVerify /\ VerifiedName(tc, c) \notin srv.names THEN
        <<"x509: ", "certificate is valid for ", NamesText(srv.names), ", not ",
          VerifiedName(tc, c)>>
    ELSE IF ~tc.InsecureSkipVerify /\ srv.issuer \notin TrustedRoots(tc) THEN
        <<"x509: certificate signed by unknown authority">>
    ELSE IF srv.clientAuth /\
            (tc.Certificates = <<>> \/ tc.Certificates[1].issuer \notin srv.clientCAs) THEN
        <<"remote error: tls: bad certificate">>
    ELSE <<>>

\* the headers http.Transport adds to a request that does not set them
TransportHeader(h) ==
    LET ua == IF s_User_Agent \in DOMAIN h THEN h
              ELSE HeaderSet(h, s_User_Agent, s_go_http_client)
    IN IF s_Accept_Encoding \in DOMAIN ua THEN ua
       ELSE HeaderSet(ua, s_Accept_Encoding, s_gzip)

\* lines 123-125: the http.Transport of the invocation. Only TLSClientConfig
\* is given, so Proxy keeps its zero value nil.
newTransport(tc) == [TLSClientConfig |-> tc, Proxy |-> "nil"]

\* the proxy a transport sends a request through, "" for none: none when
\* Proxy is nil; with http.ProxyFromEnvironment the value of HTTPS_PROXY for
\* an https URL whose host is not localhost
proxyFor(tr, e, u) ==
    IF tr.Proxy = "nil" THEN ""
    ELSE IF UrlParse(u).scheme = "https" /\ UrlParse(u).host # "localhost"
         THEN e.HTTPS_PROXY
         ELSE ""

\* the request as it is put on the wire: what it carries, the proxy it goes
\* through, and the status code of the response it follows, 0 for the
\* request dataSourceRead built
OnWire(r, via, after) ==
    [Method |-> r.Method, URL |-> r.URL, Header |-> TransportHeader(r.Header),
     Payload |-> r.Body.data, Via |-> via, After |-> after]

\* isRedirect that also sends the request again after a server error
isRedirect_Retries5xx(code) == code \in {301, 302, 303, 307, 308, 500}

\* net/http redirectBehavior: the status codes of the responses client.Do
\* follows with another request
isRedirect(code) == code \in {301, 302, 303, 307, 308}

\* the request client.Do sends after a 307 or 308 response that names the
\* same URL: the method and the body of the request before, its headers,
\* and the URL of the request before as Referer
followUp(r) == [r EXCEPT !.Header = HeaderSet(r.Header, s_Referer, <<r.URL>>)]

\* line 170, client.Do: the connection cannot be set up
ConnectFails ==
    /\ pc = "built"
    /\ HandshakeError(tlsConfig, cfg, server) # <<>>
    /\ diags' = Append(diags, ErrorDiag(<<"Error making request: ">>
                                          \o HandshakeError(tlsConfig, cfg, server)))
    /\ pc' = "done"
    /\ conn' = "closed"
    /\ UNCHANGED <<inv, env, cfg, server, tlsConfig, req, wire, followed, resp, d, ctIn, ctOut>>

\* line 170, client.Do: the request is written to the connection
Send ==
    /\ pc = "built"
    /\ HandshakeError(tlsConfig, cfg, server) = <<>>
    /\ wire' = Append(wire, OnWire(req, proxyFor(newTransport(tlsConfig), env, cfg.url), 0))
    /\ pc' = "awaiting"
    /\ conn' = "active"
    /\ UNCHANGED <<inv, env, cfg, server, tlsConfig, req, followed, resp, diags, d, ctIn, ctOut>>

\* line 170, client.Do: the server answers with a redirect, and the client
\* sends the request again on the same connection
FollowRedirect ==
    /\ pc = "awaiting"
    /\ followed < MaxRedirects
    /\ \E code \in StatusCodes \cup RedirectCodes :
          /\ isRedirect(code)
          /\ wire' = Append(wire, OnWire(followUp(req),
                                        proxyFor(newTransport(tlsConfig), env, cfg.url),
                                        code))
    /\ followed' = followed + 1
    /\ UNCHANGED <<inv, env, cfg, server, pc, tlsConfig, req, conn, resp, diags, d, ctIn, ctOut>>

\* line 170, client.Do returns the response: status and header are read, the
\* body is left to be read
Receive ==
    /\ pc = "awaiting"
    /\ \E r \in Responses :
          resp' = [received |-> TRUE, StatusCode |-> r.StatusCode,
                   Header |-> ReadHeader(<<>>, r.lines), lines |-> r.lines,
                   Body |-> r.body, readable |-> r.readable,
                   elapsedMs |-> r.elapsedMs, closed |-> FALSE]
    /\ pc' = "received"
    /\ UNCHANGED <<inv, env, cfg, server, tlsConfig, req, wire, followed, conn, diags, d,
                   ctIn, ctOut>>

\* line 170, client.Do returns an error: the connection broke before a
\* response arrived
RoundTripFails ==
    /\ pc = "awaiting"
    /\ diags' = Append(diags, ErrorDiag(<<"Error making request: ", "EOF">>))
    /\ pc' = "done"
    /\ conn' = "closed"
    /\ UNCHANGED <<inv, env, cfg, server, tlsConfig, req, wire, followed, resp, d, ctIn, ctOut>>

http_StatusOK == 200

\* statusIsError accepting every 2xx code
statusIsError_Any2xx(code) == code < 200 \/ code >= 300

\* statusIsError treating only server errors as errors
statusIsError_Only5xx(code) == code >= 500

\* line 177: the status codes that are an error
statusIsError(code) == code # http_StatusOK

\* line 178: the summary of the error diagnostic
statusErrorSummary(r) == <<"HTTP request error. Response code: ", r.StatusCode>>

\* contentTypeDiags reporting the content type as an error
contentTypeDiags_Fatal(r) ==
    LET contentType == HeaderGet(r.Header, s_Content_Type) IN
    IF contentType = EmptyStr \/ isContentTypeText(contentType) = FALSE
    THEN <<ErrorDiag(<<"Content-Type is not recognized as a text type, got ",
                       contentType>>)>>
    ELSE <<>>

\* lines 181-188: the diagnostics after the Content-Type check
contentTypeDiags(r) ==
    LET contentType == HeaderGet(r.Header, s_Content_Type) IN
    IF contentType = EmptyStr \/ isContentTypeText(contentType) = FALSE
    THEN <<WarningDiag(<<"Content-Type is not recognized as a text type, got ",
                         contentType>>)>>
    ELSE <<>>

\* joinHeaders keeping only the first value of each name
joinHeaders_FirstValue(h) == [k \in DOMAIN h |-> h[k][1]]

\* lines 195-200: the response headers, each joined into one string
joinHeaders(h) == [k \in DOMAIN h |-> Join(h[k], s_comma_space)]

\* setResult taking the id from the URL and the body of the request
setResult_IdFromBody(dd, c, r) ==
    ("id" :> (IF DOMAIN c.request_body = {} THEN c.url ELSE "hash of url and body"))
        @@ ("response_headers" :> joinHeaders(r.Header))
        @@ ("body" :> r.Body) @@ dd

\* lines 202-208: the attributes written on success. d.Set of a map of
\* strings into response_headers does not fail, so the error return of
\* lines 203-205 is not reachable.
setResult(dd, c, r) ==
    ("id" :> c.url) @@ ("response_headers" :> joinHeaders(r.Header))
        @@ ("body" :> r.Body) @@ dd

\* resultAfter writing the result before the status of the response is
\* checked
resultAfter_BodyBeforeCheck(dd, c, r) ==
    IF ~r.readable THEN dd ELSE setResult(dd, c, r)

\* lines 177-208: the attributes written when dataSourceRead returns: none
\* when it returns at the status check (line 178) or at the error of
\* ioutil.ReadAll (line 192), which both come before the first d.Set
resultAfter(dd, c, r) ==
    IF statusIsError(r.StatusCode) \/ ~r.readable THEN dd ELSE setResult(dd, c, r)

\* line 175 and lines 123-126: the connection once resp.Body is closed. A
\* body closed before its end was read, or one that broke, closes the
\* connection. After a body read to its end, or a response without body,
\* the transport keeps the connection in its idle pool: the transport is
\* not closed (no CloseIdleConnections) and has no IdleConnTimeout, and the
\* servers of the model keep connections alive.
connAfterClose(r) ==
    IF ~r.readable THEN "closed"
    ELSE IF statusIsError(r.StatusCode) /\ r.Body # EmptyStr THEN "closed"
    ELSE "idle"

\* lines 175-211: the response is classified; resp.Body is closed on every
\* return (line 175)
Classify ==
    /\ pc = "received"
    /\ \/ /\ statusIsError(resp.StatusCode)
          /\ diags' = Append(diags, ErrorDiag(statusErrorSummary(resp)))
       \/ /\ ~statusIsError(resp.StatusCode)
          /\ ~resp.readable
          /\ diags' = diags \o contentTypeDiags(resp)
                        \o <<ErrorDiag(<<"unexpected EOF">>)>>
       \/ /\ ~statusIsError(resp.StatusCode)
          /\ resp.readable
          /\ diags' = diags \o contentTypeDiags(resp)
    /\ d' = resultAfter(d, cfg, resp)
    /\ resp' = [resp EXCEPT !.closed = TRUE]
    /\ pc' = "done"
    /\ conn' = connAfterClose(resp)
    /\ UNCHANGED <<inv, env, cfg, server, tlsConfig, req, wire, followed, ctIn, ctOut>>

NoTLSConfig == [built |-> FALSE]

Init ==
    /\ inv = <<>>
    /\ cfg \in Configs
    /\ env \in EnvsFor(cfg.url)
    /\ server \in ServersFor(cfg.url)
    /\ followed = 0
    /\ conn = "none"
    /\ pc = "idle"
    /\ tlsConfig = NoTLSConfig
    /\ req = NoRequest
    /\ wire = <<>>
    /\ resp = NoResponse
    /\ diags = <<>>
    /\ d = <<>>
    /\ ctIn = EmptyStr
    /\ ctOut = <<>>

Next ==
    \/ SchemaRejects
    \/ Build
    \/ ConnectFails
    \/ Send
    \/ FollowRedirect
    \/ Receive
    \/ RoundTripFails
    \/ Classify

Spec == Init /\ [][Next]_vars

---------------------------------------------------------------------------
(* isContentTypeText on its own *)

\* the media types tried; the text of each is in the comment above it
MediaTypesTried ==
    { EmptyStr, ct_text_plain, s_application_json, s_saml_xml, ct_saml2,
      \* TEXT/Html
      <<"T", "E", "X", "T", "/", "H", "t", "m", "l">>,
      \* text
      <<"t", "e", "x", "t">>,
      \* text/
      <<"t", "e", "x", "t", "/">>,
      \* xtext/plain
      <<"x", "t", "e", "x", "t", "/", "p", "l", "a", "i", "n">>,
      \* application/jsonx
      <<"a", "p", "p", "l", "i", "c", "a", "t", "i", "o", "n", "/", "j", "s", "o", "n", "x">>,
      \* Application/JSON
      <<"A", "p", "p", "l", "i", "c", "a", "t", "i", "o", "n", "/", "J", "S", "O", "N">>,
      \* application/octet-stream
      <<"a", "p", "p", "l", "i", "c", "a", "t", "i", "o", "n", "/", "o", "c", "t", "e", "t", "-", "s", "t", "r", "e", "a", "m">>,
      \*  text/plain 
      <<" ", "t", "e", "x", "t", "/", "p", "l", "a", "i", "n", " ">>,
      \* text/pl ain
      <<"t", "e", "x", "t", "/", "p", "l", " ", "a", "i", "n">> }

\* the parameters tried after a media type
ParamsTried ==
    { EmptyStr, p_UTF8,
      \* ; charset=utf-8
      <<";", " ", "c", "h", "a", "r", "s", "e", "t", "=", "u", "t", "f", "-", "8">>,
      \* ;charset=us-ascii
      <<";", "c", "h", "a", "r", "s", "e", "t", "=", "u", "s", "-", "a", "s", "c", "i", "i">>,
      \*  ; Charset = US-ASCII
      <<" ", ";", " ", "C", "h", "a", "r", "s", "e", "t", " ", "=", " ", "U", "S", "-", "A", "S", "C", "I", "I">>,
      \* ; charset=UTF-16
      <<";", " ", "c", "h", "a", "r", "s", "e", "t", "=", "U", "T", "F", "-", "1", "6">>,
      \* ; charset="utf-8"
      <<";", " ", "c", "h", "a", "r", "s", "e", "t", "=", "\"", "u", "t", "f", "-", "8", "\"">>,
      \* ; charset=""
      <<";", " ", "c", "h", "a", "r", "s", "e", "t", "=", "\"", "\"">>,
      \* ; charset
      <<";", " ", "c", "h", "a", "r", "s", "e", "t">>,
      \* ;
      <<";">>,
      \* ; boundary=x
      <<";", " ", "b", "o", "u", "n", "d", "a", "r", "y", "=", "x">>,
      \* ; charset=utf-8; charset=utf-16
      <<";", " ", "c", "h", "a", "r", "s", "e", "t", "=", "u", "t", "f", "-", "8", ";", " ", "c", "h", "a", "r", "s", "e", "t", "=", "u", "t", "f", "-", "1", "6">>,
      \* ; q=1; charset=utf-16
      <<";", " ", "q", "=", "1", ";", " ", "c", "h", "a", "r", "s", "e", "t", "=", "u", "t", "f", "-", "1", "6">>,
      \* ; charset="utf-8
      <<";", " ", "c", "h", "a", "r", "s", "e", "t", "=", "\"", "u", "t", "f", "-", "8">> }

ContentTypesTried == {t \o p : t \in MediaTypesTried, p \in ParamsTried}

InitCT ==
    /\ inv = <<>>
    /\ env = [HTTPS_PROXY |-> ""]
    /\ followed = 0
    /\ conn = "none"
    /\ ctIn \in ContentTypesTried
    /\ ctOut = <<>>
    /\ cfg = DefaultConfig
    /\ server \in ServersFor(cfg.url)
    /\ pc = "idle"
    /\ tlsConfig = NoTLSConfig
    /\ req = NoRequest
    /\ wire = <<>>
    /\ resp = NoResponse
    /\ diags = <<>>
    /\ d = <<>>

CallIsContentTypeText ==
    /\ ctOut = <<>>
    /\ ctOut' = <<isContentTypeText(ctIn)>>
    /\ UNCHANGED <<inv, env, cfg, server, pc, tlsConfig, req, wire, followed, conn, resp,
                   diags, d, ctIn>>

NextCT == CallIsContentTypeText

SpecCT == InitCT /\ [][NextCT]_vars

---------------------------------------------------------------------------
(* Two invocations of dataSourceRead at the same time *)

\* Terraform reads the data sources of one plan in parallel goroutines of
\* the provider process; two of them are modelled
Invocations == {1, 2}

\* the configurations of the two invocations: plain http with a header and a
\* body, and https with and without a client certificate, under a CA that
\* did or did not sign the certificate of the server
PairConfigs ==
    {[DefaultConfig EXCEPT !.request_headers = s_content_type :> s_application_json,
                           !.request_body = (s_foo :> s_bar)]}
    \cup
    {[DefaultConfig EXCEPT !.url = "https://localhost/get", !.ca = ca,
                           !.client_crt = pair[1], !.client_key = pair[2]] :
        ca \in {"PEM(caA)", "PEM(caB)"},
        pair \in {<<Unset, Unset>>, <<"PEM(client.crt)", "PEM(client.key)">>}}

\* what the servers answer to the two invocations
PairResponses ==
    {r \in Responses : /\ r.lines = MockLines
                       /\ r.readable
                       /\ r.elapsedMs = 0
                       /\ r.StatusCode \in {200, 404}
                       /\ r.body = s_version}

\* lines 94-98: the locals of one invocation when dataSourceRead is entered
invocation(c, srv) ==
    [cfg |-> c, server |-> srv, pc |-> "idle", tlsConfig |-> NoTLSConfig,
     req |-> NoRequest, used |-> NoTLSConfig, wire |-> <<>>, followed |-> 0,
     conn |-> "none", resp |-> NoResponse, diags |-> <<>>, d |-> <<>>]

\* transportOf handing every invocation the transport of the first one that
\* has built its own, as a transport kept in a package variable would be
transportOf_Shared(invs, i) ==
    IF invs[1].req.built THEN newTransport(invs[1].tlsConfig)
    ELSE newTransport(invs[i].tlsConfig)

\* lines 123-126: the transport the http.Client of invocation i sends with.
\* tr and client are locals made from the tlsConfig of the invocation itself
\* (line 98); the package has no variable that holds a transport or a client.
transportOf(invs, i) == newTransport(invs[i].tlsConfig)

\* lines 94-211: the steps one invocation can take from state s when its
\* client sends with the transport tr in the environment e. These are the
\* steps of SchemaRejects, Build, ConnectFails, Send, FollowRedirect, Receive,
\* RoundTripFails and Classify on the locals of the invocation.
stepsOf(s, tr, e) ==
    CASE s.pc = "idle" ->
           IF ~schemaAccepts(s.cfg) THEN
               {[s EXCEPT !.pc = "done",
                          !.diags = Append(@, ErrorDiag(
                              <<"Inappropriate value for attribute ",
                                "request_body", ": map of string required">>))]}
           ELSE IF buildFails(s.cfg) THEN
               {[s EXCEPT !.pc = "done", !.diags = Append(@, buildError(s.cfg))]}
           ELSE
               {[s EXCEPT !.pc = "built",
                          !.tlsConfig = buildTLSConfig(s.cfg).config,
                          !.req = newRequest(s.cfg, order)] :
                   order \in Orders(DOMAIN s.cfg.request_headers)}
      [] s.pc = "built" ->
           IF HandshakeError(tr.TLSClientConfig, s.cfg, s.server) # <<>> THEN
               {[s EXCEPT !.pc = "done", !.conn = "closed", !.used = tr,
                          !.diags = Append(@, ErrorDiag(
                              <<"Error making request: ">>
                                \o HandshakeError(tr.TLSClientConfig, s.cfg, s.server)))]}
           ELSE
               {[s EXCEPT !.pc = "awaiting", !.conn = "active", !.used = tr,
                          !.wire = Append(@, OnWire(s.req, proxyFor(tr, e, s.cfg.url), 0))]}
      [] s.pc = "awaiting" ->
           {[s EXCEPT !.pc = "received",
                      !.resp = [received |-> TRUE, StatusCode |-> r.StatusCode,
                                Header |-> ReadHeader(<<>>, r.lines), lines |-> r.lines,
                                Body |-> r.body, readable |-> r.readable,
                                elapsedMs |-> r.elapsedMs, closed |-> FALSE]] :
               r \in PairResponses}
           \cup
           {[s EXCEPT !.pc = "done", !.conn = "closed",
                      !.diags = Append(@, ErrorDiag(<<"Error making request: ", "EOF">>))]}
           \cup
           {[s EXCEPT !.followed = @ + 1,
                      !.wire = Append(@, OnWire(followUp(s.req),
                                                proxyFor(tr, e, s.cfg.url), code))] :
               code \in {c \in RedirectCodes : isRedirect(c) /\ s.followed < MaxRedirects}}
      [] s.pc = "received" ->
           {[s EXCEPT !.pc = "done",
                      !.diags = IF statusIsError(s.resp.StatusCode)
                                THEN Append(@, ErrorDiag(statusErrorSummary(s.resp)))
                                ELSE IF ~s.resp.readable
                                THEN @ \o contentTypeDiags(s.resp)
                                       \o <<ErrorDiag(<<"unexpected EOF">>)>>
                                ELSE @ \o contentTypeDiags(s.resp),
                      !.d = resultAfter(@, s.cfg, s.resp),
                      !.resp = [@ EXCEPT !.closed = TRUE],
                      !.conn = connAfterClose(s.resp)]}
      [] OTHER -> {}

InitPair ==
    /\ inv \in {<<invocation(c1, s1), invocation(c2, s2)>> :
                   c1 \in PairConfigs, c2 \in PairConfigs,
                   s1 \in Servers, s2 \in Servers}
    /\ \A i \in Invocations : inv[i].server \in ServersFor(inv[i].cfg.url)
    /\ env = [HTTPS_PROXY |-> ""]
    /\ cfg = DefaultConfig
    /\ server \in ServersFor(cfg.url)
    /\ followed = 0
    /\ conn = "none"
    /\ pc = "idle"
    /\ tlsConfig = NoTLSConfig
    /\ req = NoRequest
    /\ wire = <<>>
    /\ resp = NoResponse
    /\ diags = <<>>
    /\ d = <<>>
    /\ ctIn = EmptyStr
    /\ ctOut = <<>>

\* one step of invocation i; the scheduler of Go interleaves the steps of
\* the two goroutines in any order
Step(i) ==
    /\ \E t \in stepsOf(inv[i], transportOf(inv, i), env) :
          inv' = [inv EXCEPT ![i] = t]
    /\ UNCHANGED <<env, cfg, server, pc, tlsConfig, req, wire, followed, conn, resp,
                   diags, d, ctIn, ctOut>>

NextPair == \E i \in Invocations : Step(i)

SpecPair == InitPair /\ [][NextPair]_vars

---------------------------------------------------------------------------
(* Properties of one invocation *)

Done == pc = "done"

\* the summaries of the Error diagnostics returned
ErrorSummaries ==
    {diags[i].summary : i \in {j \in DOMAIN diags : diags[j].severity = "Error"}}

HasError == ErrorSummaries # {}

\* the message holds the given pieces, one after the other
SummaryContains(summary, pieces) ==
    \E i \in 0..(Len(summary) - Len(pieces)) :
        SubSeq(summary, i + 1, i + Len(pieces)) = pieces

ResultAttributes == {"body", "response_headers", "id"}

NothingSet == DOMAIN d = {}

\* the method the specification resolves for a configuration
ClaimedMethod(c) ==
    IF c.method # Unset THEN c.method
    ELSE IF DOMAIN c.request_body # {} THEN "POST"
    ELSE "GET"

\* C1: the request that is sent has the method named by the method
\* attribute when one is given, else POST when a non-empty request_body is
\* present, else GET.
C1_MethodResolution ==
    \A i \in DOMAIN wire : wire[i].Method = ClaimedMethod(cfg)

\* C2, as stated: every response with a status code in [200,300), whose body
\* can be read, ends the invocation without an Error diagnostic and with
\* body, response_headers and id set.
C2_Every2xxAccepted ==
    (Done /\ resp.received /\ resp.StatusCode \in 200..299 /\ resp.readable)
        => (~HasError /\ ResultAttributes \subseteq DOMAIN d)

\* C2, amended: a response with status code 200 whose body can be read ends
\* the invocation without an Error diagnostic and with body, response_headers
\* and id set; a response with any other code of [200,300) ends it with the
\* Error diagnostic "HTTP request error. Response code: <code>" and with
\* nothing set.
C2_Only200Accepted ==
    (Done /\ resp.received /\ resp.StatusCode \in 200..299) =>
        /\ (resp.StatusCode = 200 /\ resp.readable)
              => (~HasError /\ ResultAttributes \subseteq DOMAIN d)
        /\ resp.StatusCode # 200
              => /\ ErrorSummaries =
                        {<<"HTTP request error. Response code: ", resp.StatusCode>>}
                 /\ NothingSet

C2_Witness ==
    /\ Done /\ resp.received /\ resp.StatusCode = 200 /\ resp.readable
    /\ ~HasError
    /\ ResultAttributes \subseteq DOMAIN d

C4_ErrorCarriesBody ==
    (Done /\ resp.received /\ resp.StatusCode \notin 200..299
          /\ resp.readable /\ resp.Body # EmptyStr) =>
        <<"HTTP request error. Response code: ", resp.StatusCode,
          ",  Error Response body: ", resp.Body>> \in ErrorSummaries

\* C5: with client_crt set and client_key not set, the invocation returns
\* an Error diagnostic whose message contains "client_crt and client_key
\* must be specified" and never sends a request.
C5_CrtWithoutKey ==
    (cfg.client_crt # Unset /\ cfg.client_key = Unset) =>
        /\ wire = <<>>
        /\ pc \in {"idle", "done"}
        /\ Done => \E m \in ErrorSummaries :
                      SummaryContains(m, <<"client_crt and client_key",
                                           " must be specified">>)

C5_Witness ==
    /\ cfg.client_crt # Unset /\ cfg.client_key = Unset
    /\ Done /\ HasError /\ wire = <<>>

\* C6: with client_key set and client_crt not set, the invocation fails with
\* an error that contains "client_crt and client_key" before any request is
\* sent.
C6_KeyWithoutCrt ==
    (cfg.client_key # Unset /\ cfg.client_crt = Unset) =>
        /\ wire = <<>>
        /\ pc \in {"idle", "done"}
        /\ Done => \E m \in ErrorSummaries :
                      SummaryContains(m, <<"client_crt and client_key">>)

\* no error was returned by the lines that build the request
RequestConstructed == pc \in {"built", "awaiting", "received"} \/ (Done /\ req.built)

\* C7: with a method of {GET, POST, PUT, PATCH, DELETE, HEAD} the request is
\* constructed (given a well-formed URL and TLS material); with any other
\* method string the invocation fails with an error and sends no request.
C7_MethodValidated ==
    /\ (cfg.method \in ValidMethods /\ ~buildFails(cfg) /\ pc # "idle")
          => RequestConstructed
    /\ (cfg.method # Unset /\ cfg.method \notin ValidMethods)
          => /\ wire = <<>>
             /\ pc \in {"idle", "done"}
             /\ Done => HasError

\* C8: when request_timeout_ms is set and the response takes longer than
\* that, the invocation ends with an error that contains "context deadline
\* exceeded" and sets no result.
C8_TimeoutAborts ==
    (Done /\ cfg.request_timeout_ms > 0 /\ resp.received
          /\ resp.elapsedMs > cfg.request_timeout_ms) =>
        /\ \E m \in ErrorSummaries : SummaryContains(m, <<"context deadline exceeded">>)
        /\ NothingSet

\* the values of the header lines whose name is k when letter case is
\* ignored, in the order the lines were received
ValuesReceived(lines, k) ==
    LET named(l) == CanonicalMIMEHeaderKey(l.name) = k
        kept == SelectSeq(lines, named)
    IN [i \in 1..Len(kept) |-> kept[i].value]

\* values put one after the other with ", " between them
RECURSIVE CommaSeparated(_)
CommaSeparated(values) ==
    IF Len(values) = 1 THEN values[1]
    ELSE CommaSeparated(SubSeq(values, 1, Len(values) - 1))
            \o <<",", " ">> \o values[Len(values)]

\* C9: on success response_headers has exactly one entry per header name
\* received; an entry is the values received under the name, in the order
\* received, with ", " between them, and so the value itself when there is
\* one.
C9_HeadersJoined ==
    (Done /\ "response_headers" \in DOMAIN d) =>
        LET rh == d["response_headers"] IN
        /\ DOMAIN rh = {CanonicalMIMEHeaderKey(resp.lines[i].name) :
                            i \in DOMAIN resp.lines}
        /\ \A k \in DOMAIN rh :
              rh[k] = CommaSeparated(ValuesReceived(resp.lines, k))

C9_Witness ==
    /\ Done /\ ~HasError /\ "response_headers" \in DOMAIN d
    /\ resp.lines = MockLines
    /\ d["response_headers"][s_X_Double] = <<"1", ",", " ", "2">>
    /\ d["response_headers"][s_X_Single] = s_foobar

\* the summaries of the Warning diagnostics returned
WarningSummaries ==
    {diags[i].summary : i \in {j \in DOMAIN diags : diags[j].severity = "Warning"}}

\* the Content-Type lines received, whatever the letter case of the name
ContentTypesReceived == ValuesReceived(resp.lines, s_Content_Type)

\* the result an accepted response gives, whatever its content type
ResultOf(c, r) ==
    [a \in ResultAttributes |->
        CASE a = "body" -> r.Body
          [] a = "id" -> c.url
          [] a = "response_headers" ->
                [k \in {CanonicalMIMEHeaderKey(r.lines[i].name) : i \in DOMAIN r.lines} |->
                    CommaSeparated(ValuesReceived(r.lines, k))]]

\* C11: when a response is accepted, its body can be read, and its
\* Content-Type is absent or is not a text type, the invocation returns a
\* Warning diagnostic and no Error diagnostic, and body, response_headers
\* and id are set as they are for a text type.
C11_WarningNotFailure ==
    (Done /\ resp.received /\ ~statusIsError(resp.StatusCode) /\ resp.readable
          /\ (ContentTypesReceived = <<>>
                \/ ~isContentTypeText(ContentTypesReceived[1]))) =>
        /\ WarningSummaries # {}
        /\ ~HasError
        /\ \A a \in ResultAttributes :
              a \in DOMAIN d /\ d[a] = ResultOf(cfg, resp)[a]

C11_Witness ==
    /\ Done /\ resp.received /\ resp.StatusCode = 200 /\ resp.readable
    /\ ContentTypesReceived = <<ct_json_utf16>>
    /\ WarningSummaries =
          {<<"Content-Type is not recognized as a text type, got ", ct_json_utf16>>}
    /\ ~HasError
    /\ d["body"] = s_version

\* C12: when request_body is written as a string, the invocation sends a
\* request, and the payload of every request it sends is that string, byte
\* for byte, whatever the content type declared; so the string
\* foo=bar&bar=bar arrives as that form payload.
C12_StringBodySentAsIs ==
    (cfg.request_body_text # EmptyStr /\ Done) =>
        /\ Len(wire) >= 1
        /\ \A i \in DOMAIN wire : wire[i].Payload = cfg.request_body_text

\* no request header is named content-type, in any letter case
NoContentTypeHeader(c) ==
    \A k \in DOMAIN c.request_headers : ToLower(k) # s_content_type

\* the request header content-type has this value
ContentTypeHeaderIs(c, value) ==
    /\ s_content_type \in DOMAIN c.request_headers
    /\ c.request_headers[s_content_type] = value

\* C13: when request_body is a map with entries and the request header
\* content-type is application/json or no content type is given, the payload
\* of every request sent is the JSON text of the whole map: one flat object
\* that holds every key of the map, each with its value, and no other key.
C13_MapSentAsJson ==
    (DOMAIN cfg.request_body # {}
        /\ (NoContentTypeHeader(cfg) \/ ContentTypeHeaderIs(cfg, s_application_json))) =>
        \A i \in DOMAIN wire :
            /\ wire[i].Payload = jsonMarshal(cfg.request_body)
            /\ jsonUnmarshal(wire[i].Payload) = cfg.request_body

C13_Witness ==
    /\ cfg.request_body = (s_foo :> s_bar) @@ (s_bar :> s_bar)
    /\ NoContentTypeHeader(cfg)
    /\ Len(wire) = 1
    /\ Len(wire[1].Payload) = 25
    /\ jsonUnmarshal(wire[1].Payload) = cfg.request_body

\* the request header content-type names the form encoding, in any letter
\* case of the value
ContentTypeHeaderNamesForm(c) ==
    /\ s_content_type \in DOMAIN c.request_headers
    /\ Contains(ToLower(c.request_headers[s_content_type]), s_form_urlencoded)

\* C14: when request_body is a map with entries and the request header
\* content-type names application/x-www-form-urlencoded, the payload of
\* every request sent is the value of the key body of the map, unchanged;
\* no other key of the map is in it, and it is empty when the map has no
\* key body.
C14_FormSendsBodyKey ==
    (DOMAIN cfg.request_body # {} /\ ContentTypeHeaderNamesForm(cfg)) =>
        \A i \in DOMAIN wire :
            wire[i].Payload = IF s_body \in DOMAIN cfg.request_body
                              THEN cfg.request_body[s_body]
                              ELSE EmptyStr

C14_Witness ==
    /\ cfg.request_body = (s_body :> s_form_payload) @@ (s_foo :> s_quote_value)
    /\ ContentTypeHeaderNamesForm(cfg)
    /\ Len(wire) = 1
    /\ wire[1].Payload = s_form_payload

\* the server requires a client certificate and verifies it
RequiresClientCert == server.tls /\ server.clientAuth

\* the server certificate passes the client's verification as configured
ServerCertTrusted ==
    /\ UrlParse(cfg.url).host \in server.names
    /\ server.issuer \in (IF cfg.ca = Unset THEN SystemRoots ELSE AppendCertsFromPEM(cfg.ca))

\* client_crt and client_key are set and hold a certificate and its key
KeyPairConfigured ==
    /\ cfg.client_crt # Unset /\ cfg.client_key # Unset
    /\ X509KeyPair(cfg.client_crt, cfg.client_key).ok

\* C15: when client_crt and client_key are set and hold a key pair, the TLS
\* configuration presents that one client certificate, and a server that
\* requires and verifies client certificates takes the request; when no
\* client certificate is configured, such a server takes no request and the
\* invocation returns the error of the transport.
C15_MutualTLS ==
    /\ (KeyPairConfigured /\ pc \notin {"idle", "done"}) =>
          tlsConfig.Certificates =
              <<X509KeyPair(cfg.client_crt, cfg.client_key).cert>>
    /\ (KeyPairConfigured /\ RequiresClientCert /\ ServerCertTrusted /\ Done
            /\ UrlParse(cfg.url).ok) =>
          Len(wire) >= 1
    /\ (cfg.client_crt = Unset /\ cfg.client_key = Unset /\ RequiresClientCert /\ Done) =>
          /\ wire = <<>>
          /\ \E m \in ErrorSummaries : SummaryContains(m, <<"Error making request: ">>)
          /\ NothingSet

C15_Witness ==
    /\ KeyPairConfigured /\ RequiresClientCert /\ cfg.ca = "PEM(caA)"
    /\ Done /\ ~HasError
    /\ Len(wire) = 1
    /\ "body" \in DOMAIN d

\* the certificate of the server is signed by no authority the client trusts
\* as configured
SignedByUnknownAuthority ==
    /\ server.tls
    /\ server.issuer \notin (IF cfg.ca = Unset THEN SystemRoots
                             ELSE AppendCertsFromPEM(cfg.ca))

\* C16: against a server whose certificate is signed by no authority the
\* client trusts, with or without a ca configured, an invocation with
\* insecure_skip_verify = true connects and has its request taken; with
\* insecure_skip_verify false or not set it fails with the error "x509:
\* certificate signed by unknown authority" and sets no result.
C16_SkipVerify ==
    /\ (SignedByUnknownAuthority /\ cfg.insecure_skip_verify /\ ~server.clientAuth
            /\ Done /\ schemaAccepts(cfg) /\ ~buildFails(cfg)) =>
          /\ Len(wire) >= 1
          /\ \A m \in ErrorSummaries :
                ~SummaryContains(m, <<"x509: certificate signed by unknown authority">>)
    /\ (SignedByUnknownAuthority /\ ~cfg.insecure_skip_verify
            /\ UrlParse(cfg.url).host \in server.names
            /\ Done /\ schemaAccepts(cfg) /\ ~buildFails(cfg)) =>
          /\ \E m \in ErrorSummaries :
                SummaryContains(m, <<"x509: certificate signed by unknown authority">>)
          /\ NothingSet

\* C17: sni replaces the host of the URL as the name the certificate of the
\* server is verified against: with an sni that is not a name of the
\* certificate the invocation fails with "certificate is valid for <names>,
\* not <sni>" and sends nothing, and with an sni that is a name of a trusted
\* certificate the request is taken, whatever the host of the URL.
C17_SniOverridesHost ==
    /\ (server.tls /\ cfg.sni # Unset /\ cfg.sni \notin server.names
            /\ ~cfg.insecure_skip_verify /\ Done) =>
          /\ wire = <<>>
          /\ \E m \in ErrorSummaries :
                SummaryContains(m, <<"certificate is valid for ",
                                     NamesText(server.names), ", not ", cfg.sni>>)
    /\ (server.tls /\ cfg.sni \in server.names /\ ~SignedByUnknownAuthority
            /\ ~server.clientAuth /\ Done) =>
          Len(wire) >= 1

\* C18: when ca is set and holds no certificate that can be parsed, the
\* invocation returns an Error diagnostic that names ca and sends no
\* request.
C18_MalformedCaRejected ==
    (cfg.ca # Unset /\ AppendCertsFromPEM(cfg.ca) = {}) =>
        /\ wire = <<>>
        /\ pc \in {"idle", "done"}
        /\ Done => \E m \in ErrorSummaries : SummaryContains(m, <<"ca">>)

\* the invocation ended with a response and without an Error diagnostic
Succeeded == Done /\ resp.received /\ ~HasError

\* C19: after a successful invocation the attribute status_code is set to
\* the status code of the response received.
C19_StatusCodeSet ==
    Succeeded =>
        /\ "status_code" \in DOMAIN d
        /\ d["status_code"] = resp.StatusCode

\* C20: after a successful invocation the attributes body and response_body
\* are both set, and both are the payload of the response.
C20_BodyAndResponseBody ==
    Succeeded =>
        /\ {"body", "response_body"} \subseteq DOMAIN d
        /\ d["body"] = resp.Body
        /\ d["response_body"] = resp.Body

\* C21: after a successful invocation the id of the result is the url of
\* the configuration: it is decided by the url alone, whatever the method,
\* the request headers, the request body and the response.
C21_IdIsUrl ==
    Succeeded => ("id" \in DOMAIN d /\ d["id"] = cfg.url)

C21_Witness ==
    /\ Succeeded
    /\ DOMAIN cfg.request_body # {} /\ DOMAIN cfg.request_headers # {}
    /\ d["id"] = "https://httpbin.org/post"

C23_HttpsProxyUsed ==
    (env.HTTPS_PROXY # "" /\ UrlParse(cfg.url).scheme = "https"
        /\ UrlParse(cfg.url).host # "localhost") =>
        \A i \in DOMAIN wire : wire[i].Via = env.HTTPS_PROXY

\* the invocation has ended, and no step of it can be taken any more
Terminal == Done => ~ENABLED Next

C26_ResourcesReleased ==
    Done =>
        /\ resp.received => resp.closed
        /\ conn \in {"none", "closed"}

\* two header names are the same when letter case is ignored
SameName(a, b) == ToLower(a) = ToLower(b)

\* the name is written in the canonical form of net/textproto: the first
\* letter and every letter after a hyphen in upper case, the others in
\* lower case
InCanonicalForm(name) ==
    \A i \in 1..Len(name) :
        IF i = 1 \/ name[i - 1] = "-" THEN ~IsLower(name[i]) ELSE ~IsUpper(name[i])

ContentTypeHeaderNamesOther(c) ==
    /\ s_content_type \in DOMAIN c.request_headers
    /\ ~Contains(ToLower(c.request_headers[s_content_type]), s_form_urlencoded)
    /\ ~Contains(ToLower(c.request_headers[s_content_type]), s_application_json)

\* C28: when request_body is a map with entries and the request header
\* content-type names neither application/x-www-form-urlencoded nor
\* application/json, the request is built with the method POST and without
\* a body, it is sent as POST with an empty payload, and building it returns
\* no diagnostic, neither an error nor a warning.
C28_OtherTypeDropsBody ==
    (DOMAIN cfg.request_body # {} /\ ContentTypeHeaderNamesOther(cfg)) =>
        /\ req.built => (req.Method = "POST" /\ ~req.Body.reader)
        /\ pc \in {"built", "awaiting"} => diags = <<>>
        /\ \A i \in DOMAIN wire : wire[i].Method = "POST" /\ wire[i].Payload = EmptyStr

C28_Witness ==
    /\ cfg.request_body = (s_foo :> s_bar) @@ (s_bar :> s_bar)
    /\ cfg.request_headers = (s_content_type :> ct_text_plain)
    /\ Succeeded
    /\ WarningSummaries = {}
    /\ wire[1].Method = "POST" /\ wire[1].Payload = EmptyStr

\* the value of the key body of the map, empty when the map has none
BodyKeyOf(c) ==
    IF s_body \in DOMAIN c.request_body THEN c.request_body[s_body] ELSE EmptyStr

\* C29: the encoding of a map body is chosen by the request header written
\* exactly content-type, whose value is searched, letter case ignored, for
\* the form type first and for JSON second: without a header of that exact
\* name (also when the content type is written under another letter case of
\* the name) the whole map is sent as JSON; a value that holds both type
\* names is treated as form.
C29_ExactKeyFormFirst ==
    DOMAIN cfg.request_body # {} =>
        \A i \in DOMAIN wire :
            LET headers == cfg.request_headers
                value == ToLower(headers[s_content_type])
            IN
            IF s_content_type \notin DOMAIN headers
            THEN /\ wire[i].Payload = jsonMarshal(cfg.request_body)
                 /\ jsonUnmarshal(wire[i].Payload) = cfg.request_body
            ELSE IF Contains(value, s_form_urlencoded)
            THEN wire[i].Payload = BodyKeyOf(cfg)
            ELSE Contains(value, s_application_json)
                    => wire[i].Payload = jsonMarshal(cfg.request_body)

C29_Witness ==
    /\ cfg.request_headers = (s_Content_Type :> s_form_urlencoded)
    /\ cfg.request_body = (s_body :> s_form_payload)
    /\ Len(wire) >= 1
    /\ wire[1].Payload # s_form_payload
    /\ jsonUnmarshal(wire[1].Payload) = cfg.request_body

\* C30: the request an invocation sends is decided by its configuration:
\* its method, its body and its headers are the same whatever the order in
\* which the range over request_headers visits the names, also when two
\* names differ in letter case only.
C30_RequestDetermined ==
    req.built =>
        \A order \in Orders(DOMAIN cfg.request_headers) :
            /\ req.Method = newRequest(cfg, order).Method
            /\ req.Body = newRequest(cfg, order).Body
            /\ req.Header = newRequest(cfg, order).Header

\* the states one invocation passes through when it is the only one running:
\* everything reachable from entering dataSourceRead with configuration c
\* against server srv
RECURSIVE ReachedAlone(_, _)
ReachedAlone(seen, frontier) ==
    IF frontier = {} THEN seen
    ELSE LET next == UNION {stepsOf(s, transportOf(<<s>>, 1), env) : s \in frontier}
         IN ReachedAlone(seen \cup frontier, next \ (seen \cup frontier))

AloneStates(c, srv) == ReachedAlone({}, {invocation(c, srv)})

\* the other of the two invocations
Other(i) == CHOOSE j \in Invocations : j # i

\* C25: under every interleaving of two invocations, each sends with a
\* transport made of its own CA pool and client certificate, puts a request
\* on the wire that carries its own headers and body, and is at every moment
\* in a state, result included, that it also reaches when it runs alone
C25_Isolated ==
    \A i \in Invocations :
        /\ inv[i] \in AloneStates(inv[i].cfg, inv[i].server)
        /\ inv[i].wire # <<>> =>
              /\ inv[i].used = newTransport(buildTLSConfig(inv[i].cfg).config)
              /\ \E order \in Orders(DOMAIN inv[i].cfg.request_headers) :
                    inv[i].wire[1] = OnWire(newRequest(inv[i].cfg, order), "", 0)

\* both invocations have returned; one presented a client certificate to a
\* server that asks for one and has its result, the other ran against such a
\* server without a client certificate and was refused
C25_Witness ==
    \E i \in Invocations :
        /\ inv # <<>>
        /\ inv[i].pc = "done" /\ inv[Other(i)].pc = "done"
        /\ inv[i].server.clientAuth /\ inv[Other(i)].server.clientAuth
        /\ inv[i].used.TLSClientConfig.Certificates # <<>>
        /\ "body" \in DOMAIN inv[i].d
        /\ inv[Other(i)].cfg.client_crt = Unset
        /\ inv[Other(i)].wire = <<>>
        /\ inv[Other(i)].d = <<>>
        /\ \E k \in DOMAIN inv[Other(i)].diags :
              inv[Other(i)].diags[k].summary
                  = <<"Error making request: ", "remote error: tls: bad certificate">>

---------------------------------------------------------------------------
(* Properties of isContentTypeText *)

\* the charset parameter of a parsed media type allows text handling
ClaimedCharset(parsed) ==
    \/ s_charset \notin DOMAIN parsed.params
    \/ ToLower(parsed.params[s_charset]) \in {EmptyStr, s_utf8, s_us_ascii}

\* C10, as stated: isContentTypeText(ct) is true exactly when ct parses as a
\* media type that matches text/*, is application/json or is
\* application/samlmetadata+xml, with a charset that is absent, empty, utf-8
\* or us-ascii in any letter case.
C10_ExactTypes ==
    \A i \in DOMAIN ctOut :
        ctOut[i] =
            LET parsed == ParseMediaType(ctIn) IN
            /\ parsed.ok
            /\ \/ HasPrefix(parsed.mediatype, s_text_slash)
                     /\ Len(parsed.mediatype) > Len(s_text_slash)
               \/ parsed.mediatype = s_application_json
               \/ parsed.mediatype = s_saml_xml
            /\ ClaimedCharset(parsed)

\* C10, amended: isContentTypeText(ct) is true exactly when ct parses as a
\* media type that matches text/*, is application/json or starts with
\* application/samlmetadata+xml, with a charset that is absent, empty, utf-8
\* or us-ascii in any letter case; it is false for every other value: one
\* that does not parse, and a media type that merely starts with
\* application/json.
C10_SamlPrefix ==
    \A i \in DOMAIN ctOut :
        ctOut[i] =
            LET parsed == ParseMediaType(ctIn) IN
            /\ parsed.ok
            /\ \/ HasPrefix(parsed.mediatype, s_text_slash)
                     /\ Len(parsed.mediatype) > Len(s_text_slash)
               \/ parsed.mediatype = s_application_json
               \/ HasPrefix(parsed.mediatype, s_saml_xml)
            /\ ClaimedCharset(parsed)

C10_Witness ==
    /\ ctIn = ct_saml2 \o p_UTF8
    /\ ctOut = <<TRUE>>

=============================================================================
